---- MODULE Spec2Model ----
(***************************************************************************)
(* Model of src/src/api_valor.py: the geometry normalizer (_close_rings    *)
(* and the normalize step of zonal_mean), the zonal query pipeline         *)
(* (zonal_mean) and the point sampler (get_value), with the raster handle  *)
(* each query opens and closes.                                            *)
(***************************************************************************)
EXTENDS Integers, Sequences, FiniteSets, TLC

VARIABLES
    normIn,     \* the geometry mapping handed to the normalizer, or NoGeom
    normOut,    \* geom_fixed, the normalizer's output, or NoGeom
    tif,        \* the raster file at caminho_geotiff: size and band content
    env,        \* who sends requests: the client slots and their geometries
    pc,         \* per client: the position of its request handler
    stage,      \* per client: the local `stage` of zonal_mean
    geom,       \* per client: bounds of geom_wgs84 / geom_proj, or the point
    win,        \* per client: the local `w` (Window)
    mask,       \* per client: mask_poly, the covered cells of the window
    nodata,     \* per client: the local `nodata` read from the handle
    src,        \* per client: the handle bound by `with ... as src`, 0 if none
    result,     \* per client: the response
    opener,     \* per handle: the client whose rasterio.open made it
    isOpen,     \* the handles that are open
    uses,       \* per client: the handles it operated on, and whether open
    cells       \* per client: the raster cells its reads returned

normVars == <<normIn, normOut>>
queryVars == <<pc, stage, geom, win, mask, nodata, src, result, opener, isOpen,
               uses, cells>>
vars == <<normIn, normOut, tif, env, queryVars>>

----------------------------------------------------------------------------
(* JSON values: numbers and arrays, tagged so that isinstance and the      *)
(* subscript errors of Python can be told apart.                           *)

Num(n) == [t |-> "num", n |-> n, a |-> <<>>]
Arr(s) == [t |-> "arr", n |-> 0, a |-> s]
RAISE == [t |-> "raise", n |-> 0, a |-> <<>>]

IsNum(j) == j.t = "num"
IsArr(j) == j.t = "arr"
Raised(j) == j.t = "raise"

\* Python j[0]: TypeError on a number, IndexError on an empty list.
First(j) == IF IsArr(j) /\ Len(j.a) > 0 THEN j.a[1] ELSE RAISE

\* Python j[-1].
Last(j) == IF IsArr(j) /\ Len(j.a) > 0 THEN j.a[Len(j.a)] ELSE RAISE

\* Python j[1].
Second(j) == IF IsArr(j) /\ Len(j.a) > 1 THEN j.a[2] ELSE RAISE

----------------------------------------------------------------------------
(* _close_rings                                                            *)

\* close_ring(list(r)): r unchanged when empty or when first and last agree
\* in x and in y, else r with a copy of its first entry appended; RAISE when
\* list(r) or a subscript raises.  The `or` short-circuits.
close_ring(r) ==
    IF ~IsArr(r) THEN RAISE
    ELSE IF Len(r.a) = 0 THEN r
    ELSE LET x0 == First(First(r))
             xl == First(Last(r))
             y0 == Second(First(r))
             yl == Second(Last(r))
         IN  IF Raised(x0) \/ Raised(xl) THEN RAISE
             ELSE IF x0 # xl THEN Arr(Append(r.a, First(r)))
             ELSE IF Raised(y0) \/ Raised(yl) THEN RAISE
             ELSE IF y0 # yl THEN Arr(Append(r.a, First(r)))
             ELSE r

\* [close_ring(list(r)) for r in poly]: RAISE when poly is not iterable or
\* any ring raises.
CloseAll(poly) ==
    IF ~IsArr(poly) THEN RAISE
    ELSE LET out == [i \in 1..Len(poly.a) |-> close_ring(poly.a[i])]
         IN  IF \E i \in 1..Len(poly.a) : Raised(out[i]) THEN RAISE
             ELSE Arr(out)

\* The body of the try block: the depth probe coords[0][0][0], then the
\* Polygon branch or the MultiPolygon branch.
CloseRingsTry(coords) ==
    LET probe == First(First(First(coords)))
    IN  IF Raised(probe) THEN RAISE
        ELSE IF IsNum(probe) THEN CloseAll(coords)
        ELSE LET fixed == [i \in 1..Len(coords.a) |-> CloseAll(coords.a[i])]
             IN  IF \E i \in 1..Len(coords.a) : Raised(fixed[i]) THEN RAISE
                 ELSE Arr(fixed)

\* _close_rings: any exception returns coords as given.
CloseRings(coords) ==
    LET r == CloseRingsTry(coords)
    IN  IF Raised(r) THEN coords ELSE r

NoGeom == [type |-> "none", coordinates |-> Arr(<<>>)]

\* The normalize and close_rings steps of zonal_mean on a mapping whose type
\* is Polygon or MultiPolygon and whose coordinates are non-empty.
GeomFixed(g) ==
    [type |-> IF g.type = "POLYGON" THEN "Polygon" ELSE "MultiPolygon",
     coordinates |-> CloseRings(g.coordinates)]

----------------------------------------------------------------------------
(* The raster file and the requests.                                       *)

MaxW == 2
MaxH == 2
MaxVal == 1
Res == 2
Margin == 2

Clients == {1, 2}

NaN == 0 - 1
None == 0 - 2

\* Pixel values of the band (integers and NaN) and the values of src.nodata.
PixVals == 0..MaxVal \cup {NaN}
NodataVals == {None} \cup 0..MaxVal

\* A north-up raster with its lower left corner at the origin and square
\* pixels of Res world units; the band is a ramp over PixVals that starts
\* at 0 or at 1.
Tifs == [width : 1..MaxW, height : 1..MaxH, shift : {0, 1}]

PixelAt(t, row, col) ==
    LET k == (row * t.width + col + t.shift) % (MaxVal + 2)
    IN  IF k = MaxVal + 1 THEN NaN ELSE k

Right(t) == t.width * Res
Top(t) == t.height * Res

Snap(S, e) == IF e.snapped THEN {v \in S : v % Res = 0} ELSE S
Xs(t, e) == Snap((0 - Margin)..(Right(t) + Margin), e)
Ys(t, e) == Snap((0 - Margin)..(Top(t) + Margin), e)

\* Bounds (minx, miny, maxx, maxy) of a polygon of positive area.
BBoxes(t, e) ==
    {b \in [minx : Xs(t, e), miny : Ys(t, e), maxx : Xs(t, e), maxy : Ys(t, e)] :
        b.minx < b.maxx /\ b.miny < b.maxy}

NoBox == [minx |-> 0, miny |-> 0, maxx |-> 0 - 1, maxy |-> 0 - 1]
NoWin == [col_off |-> 0, row_off |-> 0, width |-> 0, height |-> 0]

----------------------------------------------------------------------------
(* Responses.                                                              *)

Null == <<"null", 0, 0>>
NaNFloat == <<"nan", 0, 0>>
\* The float s / n.
Float(s, n) == <<"val", s, n>>

NoResult ==
    [kind |-> "none", mean |-> Null, count |-> 0, note |-> "", value |-> Null,
     status |-> 0, stage |-> ""]

\* {"mean": ..., "count": ..., "note": ...}; note "" when the key is absent.
ZonalResult(m, n, note) ==
    [kind |-> "zonal", mean |-> m, count |-> n, note |-> note, value |-> Null,
     status |-> 200, stage |-> ""]

\* {"value": ...}
PointResult(v) ==
    [kind |-> "point", mean |-> Null, count |-> 0, note |-> "", value |-> v,
     status |-> 200, stage |-> ""]

\* HTTPException(status_code=400, detail="stage=<st> | ...")
HTTPError(st) ==
    [kind |-> "error", mean |-> Null, count |-> 0, note |-> "", value |-> Null,
     status |-> 400, stage |-> st]

\* The handler answering with a server error that names no stage.
UnexpectedUnstaged(st) == [HTTPError("") EXCEPT !.status = 500]

\* except Exception as e: raise HTTPException(400, f"{stage=} | {e}")
Unexpected(st) == HTTPError(st)

NoteEmptyGeometry == "geometria vazia"
NoteNoIntersection == "geometria nao intersecta o raster"
NoteEmptyWindow == "janela vazia"
NoteNoValidPixels == "sem pixels validos (NoData/fora do raster)"

----------------------------------------------------------------------------
(* _to_src_crs, the bounds check and the window of zonal_mean.             *)

CrsKinds == {"none", "EPSG:4326", "projected", "unknown"}

\* transformer.transform(x, y) of a raster CRS other than WGS84, applied to
\* every coordinate: here a translation by one pixel in x and in y.
Project(g) ==
    [minx |-> g.minx + Res, miny |-> g.miny + Res,
     maxx |-> g.maxx + Res, maxy |-> g.maxy + Res]

\* What _to_src_crs returns, as a set: the geometry itself, the projected
\* geometry, or nothing when the transformer cannot be built (ProjError).
ToSrcCrs(g, crs) ==
    IF crs \in {"none", "EPSG:4326"} THEN {g}
    ELSE IF crs = "projected" THEN {Project(g)}
    ELSE {}

\* geom_proj.intersects(box(*src.bounds)): false when the bounds are apart;
\* a polygon whose bounds meet the raster's may still miss it.
Intersects(g, t) ==
    IF g.minx <= Right(t) /\ g.maxx >= 0 /\ g.miny <= Top(t) /\ g.maxy >= 0
    THEN BOOLEAN ELSE {FALSE}

Floor(a, b) == a \div b
Ceil(a, b) == 0 - ((0 - a) \div b)
Max(a, b) == IF a >= b THEN a ELSE b
Min(a, b) == IF a <= b THEN a ELSE b

\* The window without the clamp of its offsets to 0.
PlanWindowUnclamped(g, t) ==
    LET col0 == Floor(g.minx, Res)
        row0 == Floor(Top(t) - g.maxy, Res)
        col1 == Min(t.width, Ceil(g.maxx, Res))
        row1 == Min(t.height, Ceil(Top(t) - g.miny, Res))
    IN  [col_off |-> col0, row_off |-> row0,
         width |-> col1 - col0, height |-> row1 - row0]

\* from_bounds, floor/ceil and the clamp to the raster: the Window w.  The
\* offsets and sizes of from_bounds are kept as exact fractions over Res.
PlanWindow(g, t) ==
    LET col0 == Max(0, Floor(g.minx, Res))
        row0 == Max(0, Floor(Top(t) - g.maxy, Res))
        col1 == Min(t.width, Ceil(g.maxx, Res))
        row1 == Min(t.height, Ceil(Top(t) - g.miny, Res))
    IN  [col_off |-> col0, row_off |-> row0,
         width |-> col1 - col0, height |-> row1 - row0]

\* `if w.width <= 0 or w.height <= 0`
EmptyWindow(w) == w.width <= 0 \/ w.height <= 0

\* The raster cells <<row, col>> of a window.
WindowCells(w) ==
    {<<r, c>> : r \in w.row_off..(w.row_off + w.height - 1),
                c \in w.col_off..(w.col_off + w.width - 1)}

\* rasterize(...).astype(bool): some set of window cells whose centre lies
\* within the bounds of the geometry.
Masks(g, w, t) ==
    SUBSET {rc \in WindowCells(w) :
        /\ 2 * g.minx <= (2 * rc[2] + 1) * Res
        /\ (2 * rc[2] + 1) * Res <= 2 * g.maxx
        /\ 2 * g.miny <= 2 * Top(t) - (2 * rc[1] + 1) * Res
        /\ 2 * Top(t) - (2 * rc[1] + 1) * Res <= 2 * g.maxy}

----------------------------------------------------------------------------
(* The aggregation of zonal_mean.                                          *)

RECURSIVE SumOver(_, _)
SumOver(S, t) ==
    IF S = {} THEN 0
    ELSE LET rc == CHOOSE x \in S : TRUE
         IN  PixelAt(t, rc[1], rc[2]) + SumOver(S \ {rc}, t)

\* arr != nodata, elementwise: NaN differs from everything.
NotEqual(v, nd) == v = NaN \/ v # nd

\* valid = mask_poly, and `valid &= (arr != nodata)` when nodata is set.
ValidCells(m, nd, t) ==
    {rc \in m : nd = None \/ NotEqual(PixelAt(t, rc[1], rc[2]), nd)}

\* float(np.nanmean(vals.astype(float))): the mean of the values that are
\* not NaN, NaN when there is none.
NanMean(S, t) ==
    LET nn == {rc \in S : PixelAt(t, rc[1], rc[2]) # NaN}
    IN  IF nn = {} THEN NaNFloat ELSE Float(SumOver(nn, t), Cardinality(nn))

\* vals = arr[valid] and the two returns.
Aggregate(m, nd, t) ==
    LET vals == ValidCells(m, nd, t)
    IN  IF Cardinality(vals) = 0
        THEN ZonalResult(Null, 0, NoteNoValidPixels)
        ELSE ZonalResult(NanMean(vals, t), Cardinality(vals), "")

----------------------------------------------------------------------------
(* The point sampler's arithmetic.                                         *)

\* src.index(x, y)
SrcIndex(x, y, t) == <<Floor(Top(t) - y, Res), Floor(x, Res)>>

\* The bounds test with > for >=.
OutOfBoundsOffByOne(row, col, t) ==
    row < 0 \/ col < 0 \/ row > t.height \/ col > t.width

\* `row < 0 or col < 0 or row >= src.height or col >= src.width`
OutOfBounds(row, col, t) ==
    row < 0 \/ col < 0 \/ row >= t.height \/ col >= t.width

\* src.read(1, window=w, masked=True)[0, 0] and the two returns after it.
SampleValue(row, col, nd, t) ==
    LET val == PixelAt(t, row, col)
    IN  IF nd # None /\ val = nd THEN PointResult(Null)
        ELSE IF val = NaN THEN PointResult(NaNFloat)
        ELSE PointResult(Float(val, 1))

----------------------------------------------------------------------------
(* The raster handle: rasterio.open and the exit of the with block.        *)

\* rasterio.open(caminho_geotiff): a new handle, owned by the caller.
OpenHandle(q) ==
    /\ opener' = Append(opener, q)
    /\ isOpen' = isOpen \cup {Len(opener) + 1}
    /\ src' = [src EXCEPT ![q] = Len(opener) + 1]

\* The handle closed on return only: an exception leaves it open.
ReleaseOnReturnOnly(h, how) == IF how = "raise" THEN isOpen ELSE isOpen \ {h}

\* The handles left open when a request ends by `how` ("return" or
\* "raise"): the with block closes the one it bound, h (0: none bound).
Release(h, how) == isOpen \ {h}

\* An operation on the handle bound to src.
Use(q) == uses' = [uses EXCEPT ![q] = @ \cup {<<src[q], src[q] \in isOpen>>}]

\* The handler of q ends with response res, by return or by raise.
Leave(q, res, how) ==
    /\ result' = [result EXCEPT ![q] = res]
    /\ pc' = [pc EXCEPT ![q] = "done"]
    /\ isOpen' = Release(src[q], how)
    /\ src' = [src EXCEPT ![q] = 0]
    /\ opener' = opener

\* The handler of q goes on to position p.
Goto(q, p) ==
    /\ pc' = [pc EXCEPT ![q] = p]
    /\ UNCHANGED <<result, isOpen, src, opener>>

SetStage(q, st) == stage' = [stage EXCEPT ![q] = st]

\* The raster file and the clients do not change; the normalizer's own
\* variables belong to SpecNormalize.
Frame == UNCHANGED <<normIn, normOut, tif, env>>

----------------------------------------------------------------------------
(* zonal_mean, step by step.                                               *)

InputForms == {"bad_json", "not_dict", "bad_type", "no_coordinates", "geojson"}
ShapeOutcomes ==
    {"shape_error", "empty", "valid", "repaired", "unrepairable", "unexpected"}

\* POST /zonal arrives: stage = "start".
ZStart(q) ==
    /\ Frame
    /\ pc[q] = "idle"
    /\ SetStage(q, "start")
    /\ Goto(q, "normalize")
    /\ UNCHANGED <<geom, win, mask, nodata, uses, cells>>

\* 1) json.loads, the dict check, the type check, the coordinates check.
ZNormalize(q) ==
    /\ Frame
    /\ pc[q] = "normalize"
    /\ SetStage(q, "normalize")
    /\ \E form \in InputForms :
        IF form = "geojson" THEN Goto(q, "close_rings")
        ELSE Leave(q, HTTPError("normalize"), "raise")
    /\ UNCHANGED <<geom, win, mask, nodata, uses, cells>>

\* 2) geom_fixed: _close_rings never raises.
ZCloseRings(q) ==
    /\ Frame
    /\ pc[q] = "close_rings"
    /\ SetStage(q, "close_rings")
    /\ Goto(q, "validate")
    /\ UNCHANGED <<geom, win, mask, nodata, uses, cells>>

\* 3) shape(), is_empty, explain_validity and buffer(0).
ZValidate(q) ==
    /\ Frame
    /\ pc[q] = "validate"
    /\ SetStage(q, "validate")
    /\ \E out \in ShapeOutcomes :
        \/ /\ out \in {"valid", "repaired"}
           /\ \E g \in BBoxes(tif, env) : geom' = [geom EXCEPT ![q] = g]
           /\ Goto(q, "open")
        \/ /\ out = "empty"
           /\ Leave(q, ZonalResult(Null, 0, NoteEmptyGeometry), "return")
           /\ UNCHANGED geom
        \/ /\ out \in {"shape_error", "unrepairable"}
           /\ Leave(q, HTTPError("validate"), "raise")
           /\ UNCHANGED geom
        \/ /\ out = "unexpected"
           /\ Leave(q, Unexpected("validate"), "raise")
           /\ UNCHANGED geom
    /\ UNCHANGED <<win, mask, nodata, uses, cells>>

\* 4) with rasterio.open(caminho_geotiff) as src; the stage is still the
\* one of step 3 when the open fails.
ZOpen(q) ==
    /\ Frame
    /\ pc[q] = "open"
    /\ \E ok \in BOOLEAN :
        IF ok THEN /\ OpenHandle(q)
                   /\ pc' = [pc EXCEPT ![q] = "reproject"]
                   /\ UNCHANGED result
        ELSE Leave(q, Unexpected(stage[q]), "raise")
    /\ UNCHANGED <<stage, geom, win, mask, nodata, uses, cells>>

\* geom_proj = _to_src_crs(geom_wgs84, src)
ZReproject(q) ==
    /\ Frame
    /\ pc[q] = "reproject"
    /\ SetStage(q, "reproject")
    /\ Use(q)
    /\ \E crs \in CrsKinds :
        IF ToSrcCrs(geom[q], crs) = {}
        THEN /\ Leave(q, HTTPError("reproject"), "raise")
             /\ UNCHANGED geom
        ELSE /\ \E g \in ToSrcCrs(geom[q], crs) :
                    geom' = [geom EXCEPT ![q] = g]
             /\ Goto(q, "bounds-check")
    /\ UNCHANGED <<win, mask, nodata, cells>>

\* The intersection check with the raster's bounds.
ZBoundsCheck(q) ==
    /\ Frame
    /\ pc[q] = "bounds-check"
    /\ SetStage(q, "bounds-check")
    /\ Use(q)
    /\ \E hit \in Intersects(geom[q], tif) :
        IF hit THEN Goto(q, "window")
        ELSE Leave(q, ZonalResult(Null, 0, NoteNoIntersection), "return")
    /\ UNCHANGED <<geom, win, mask, nodata, cells>>

\* The window of the geometry's bounds, clamped to the raster.
ZWindow(q) ==
    /\ Frame
    /\ pc[q] = "window"
    /\ SetStage(q, "window")
    /\ Use(q)
    /\ win' = [win EXCEPT ![q] = PlanWindow(geom[q], tif)]
    /\ IF EmptyWindow(PlanWindow(geom[q], tif))
       THEN Leave(q, ZonalResult(Null, 0, NoteEmptyWindow), "return")
       ELSE Goto(q, "read")
    /\ UNCHANGED <<geom, mask, nodata, cells>>

\* arr = src.read(1, window=w, masked=False); the read can fail.
ZRead(q) ==
    /\ Frame
    /\ pc[q] = "read"
    /\ SetStage(q, "read")
    /\ Use(q)
    /\ \E ok \in BOOLEAN :
        IF ok THEN /\ cells' = [cells EXCEPT ![q] = WindowCells(win[q])]
                   /\ Goto(q, "window-transform")
        ELSE /\ Leave(q, Unexpected("read"), "raise")
             /\ UNCHANGED cells
    /\ UNCHANGED <<geom, win, mask, nodata>>

\* w_transform = win_transform(w, src.transform)
ZWindowTransform(q) ==
    /\ Frame
    /\ pc[q] = "window-transform"
    /\ SetStage(q, "window-transform")
    /\ Use(q)
    /\ Goto(q, "rasterize")
    /\ UNCHANGED <<geom, win, mask, nodata, cells>>

\* mask_poly = rasterize(...); geom_proj is not used after it.
ZRasterize(q) ==
    /\ Frame
    /\ pc[q] = "rasterize"
    /\ SetStage(q, "rasterize")
    /\ \E ok \in BOOLEAN :
        IF ok THEN /\ \E m \in Masks(geom[q], win[q], tif) :
                        mask' = [mask EXCEPT ![q] = m]
                   /\ geom' = [geom EXCEPT ![q] = NoBox]
                   /\ Goto(q, "compute")
        ELSE /\ Leave(q, Unexpected("rasterize"), "raise")
             /\ UNCHANGED <<mask, geom>>
    /\ UNCHANGED <<win, nodata, uses, cells>>

\* nodata = src.nodata, valid, vals and the mean.
ZCompute(q) ==
    /\ Frame
    /\ pc[q] = "compute"
    /\ SetStage(q, "compute")
    /\ Use(q)
    /\ \E nd \in NodataVals :
        /\ nodata' = [nodata EXCEPT ![q] = nd]
        /\ Leave(q, Aggregate(mask[q], nd, tif), "return")
    /\ UNCHANGED <<geom, win, mask, cells>>

----------------------------------------------------------------------------
(* get_value, step by step.                                                *)

\* POST /point arrives.
PStart(q) ==
    /\ Frame
    /\ pc[q] = "idle"
    /\ SetStage(q, "point")
    /\ Goto(q, "p_open")
    /\ UNCHANGED <<geom, win, mask, nodata, uses, cells>>

\* with rasterio.open(caminho_geotiff) as src
POpen(q) ==
    /\ Frame
    /\ pc[q] = "p_open"
    /\ \E ok \in BOOLEAN :
        IF ok THEN /\ OpenHandle(q)
                   /\ pc' = [pc EXCEPT ![q] = "p_sample"]
                   /\ UNCHANGED result
        ELSE Leave(q, Unexpected("point"), "raise")
    /\ UNCHANGED <<stage, geom, win, mask, nodata, uses, cells>>

\* rio_transform, src.index, the bounds test, the 1x1 read and the result.
PSample(q) ==
    /\ Frame
    /\ pc[q] = "p_sample"
    /\ Use(q)
    /\ \/ /\ Leave(q, Unexpected("point"), "raise")
          /\ UNCHANGED <<geom, win, nodata, cells>>
       \/ \E x \in Xs(tif, env), y \in Ys(tif, env) :
            LET rc == SrcIndex(x, y, tif)
            IN  /\ geom' = [geom EXCEPT ![q] =
                        [minx |-> x, miny |-> y, maxx |-> x, maxy |-> y]]
                /\ IF OutOfBounds(rc[1], rc[2], tif)
                   THEN /\ Leave(q, PointResult(Null), "return")
                        /\ UNCHANGED <<win, nodata, cells>>
                   ELSE /\ win' = [win EXCEPT ![q] =
                                [col_off |-> rc[2], row_off |-> rc[1],
                                 width |-> 1, height |-> 1]]
                        /\ \/ /\ Leave(q, Unexpected("point"), "raise")
                              /\ UNCHANGED <<nodata, cells>>
                           \/ \E nd \in NodataVals :
                                /\ nodata' = [nodata EXCEPT ![q] = nd]
                                /\ cells' = [cells EXCEPT ![q] = {rc}]
                                /\ Leave(q, SampleValue(rc[1], rc[2], nd, tif),
                                         "return")
    /\ UNCHANGED <<stage, mask>>

----------------------------------------------------------------------------
(* Specifications.                                                         *)

IdleQueries ==
    /\ pc = [q \in Clients |-> "idle"]
    /\ stage = [q \in Clients |-> ""]
    /\ geom = [q \in Clients |-> NoBox]
    /\ win = [q \in Clients |-> NoWin]
    /\ mask = [q \in Clients |-> {}]
    /\ nodata = [q \in Clients |-> None]
    /\ src = [q \in Clients |-> 0]
    /\ result = [q \in Clients |-> NoResult]
    /\ opener = <<>>
    /\ isOpen = {}
    /\ uses = [q \in Clients |-> {}]
    /\ cells = [q \in Clients |-> {}]

\* One client, every raster and every geometry within the bounds.
Init ==
    /\ normIn = NoGeom /\ normOut = NoGeom
    /\ tif \in Tifs
    /\ env = [clients |-> {1}, snapped |-> FALSE]
    /\ IdleQueries

\* Two clients at once on a raster of one pixel, geometries on pixel edges.
InitConcurrent ==
    /\ normIn = NoGeom /\ normOut = NoGeom
    /\ tif = [width |-> 1, height |-> 1, shift |-> 0]
    /\ env = [clients |-> Clients, snapped |-> TRUE]
    /\ IdleQueries

Next ==
    \/ \E q \in env.clients : ZStart(q)
    \/ \E q \in env.clients : ZNormalize(q)
    \/ \E q \in env.clients : ZCloseRings(q)
    \/ \E q \in env.clients : ZValidate(q)
    \/ \E q \in env.clients : ZOpen(q)
    \/ \E q \in env.clients : ZReproject(q)
    \/ \E q \in env.clients : ZBoundsCheck(q)
    \/ \E q \in env.clients : ZWindow(q)
    \/ \E q \in env.clients : ZRead(q)
    \/ \E q \in env.clients : ZWindowTransform(q)
    \/ \E q \in env.clients : ZRasterize(q)
    \/ \E q \in env.clients : ZCompute(q)
    \/ \E q \in env.clients : PStart(q)
    \/ \E q \in env.clients : POpen(q)
    \/ \E q \in env.clients : PSample(q)

Spec == Init /\ [][Next]_vars

SpecConcurrent == InitConcurrent /\ [][Next]_vars

----------------------------------------------------------------------------
(* The normalizer on its own: bounded inputs, one action.                  *)

MaxCoord == 1
MaxRingLen == 2
MaxRings == 2
MaxPolys == 2

SeqsOf(S, lo, hi) == UNION {[1..n -> S] : n \in lo..hi}

\* Coordinate pairs with entries up to c, and rings of up to n of them.
Pairs(c) == {Arr(<<Num(x), Num(y)>>) : x \in 0..c, y \in 0..c}
Rings(c, n) == {Arr(s) : s \in SeqsOf(Pairs(c), 0, n)}

\* Polygon coordinates at depth 2 or given as a bare ring (depth 1), and
\* MultiPolygon coordinates at depth 3; `if not coords` has rejected the
\* empty list.
PolygonCoords(c, n, k) == {Arr(s) : s \in SeqsOf(Rings(c, n), 1, k)}
BareRings(c, n) == {r \in Rings(c, n) : Len(r.a) > 0}
MultiCoords(c, n, k, m) ==
    {Arr(s) : s \in SeqsOf({Arr(p) : p \in SeqsOf(Rings(c, n), 0, k)}, 1, m)}

GeomInputs(c, n, k, m) ==
    [type : {"POLYGON"}, coordinates : PolygonCoords(c, n, k) \cup BareRings(c, n)]
    \cup [type : {"MULTIPOLYGON"}, coordinates : MultiCoords(c, n, k, m)]

InitNormalize ==
    /\ normIn = NoGeom /\ normOut = NoGeom
    /\ tif = [width |-> 1, height |-> 1, shift |-> 0]
    /\ env = [clients |-> {}, snapped |-> FALSE]
    /\ IdleQueries

NormalizeGeometry ==
    /\ normIn = NoGeom
    /\ \E g \in GeomInputs(MaxCoord, MaxRingLen, MaxRings, MaxPolys) :
        /\ normIn' = g
        /\ normOut' = GeomFixed(g)
    /\ UNCHANGED <<tif, env, queryVars>>

NextNormalize == NormalizeGeometry

SpecNormalize == InitNormalize /\ [][NextNormalize]_vars

----------------------------------------------------------------------------
(* What the claims say about the normalizer.                               *)

\* A ring of coordinate pairs closed as the specification closes it.
ClosedRing(r) ==
    IF Len(r.a) = 0 \/ r.a[1] = r.a[Len(r.a)] THEN r
    ELSE Arr(Append(r.a, r.a[1]))

IsPair(p) == IsArr(p) /\ Len(p.a) = 2 /\ IsNum(p.a[1]) /\ IsNum(p.a[2])
IsRingOfPairs(r) == IsArr(r) /\ \A i \in 1..Len(r.a) : IsPair(r.a[i])
IsBareRing(c) == IsRingOfPairs(c) /\ Len(c.a) > 0
IsPolygonDepth(c) == IsArr(c) /\ \A i \in 1..Len(c.a) : IsRingOfPairs(c.a[i])
IsMultiDepth(c) == IsArr(c) /\ \A i \in 1..Len(c.a) : IsPolygonDepth(c.a[i])

ClosedPolygon(c) == Arr([i \in 1..Len(c.a) |-> ClosedRing(c.a[i])])
ClosedMulti(c) == Arr([i \in 1..Len(c.a) |-> ClosedPolygon(c.a[i])])

\* C1: a Polygon given as the bare ring R normalizes to what the Polygon [R]
\* normalizes to, the one-ring array holding R closed.
C1_NestingInference ==
    (normIn.type = "POLYGON" /\ IsBareRing(normIn.coordinates)) =>
        /\ normOut = GeomFixed([type |-> "POLYGON",
                                coordinates |-> Arr(<<normIn.coordinates>>)])
        /\ normOut.coordinates = Arr(<<ClosedRing(normIn.coordinates)>>)

\* C2: at the canonical depth every ring of the output is the input ring,
\* closed: one copy of the first pair appended when first and last differ,
\* unchanged otherwise.
C2_RingClosure ==
    /\ (normIn.type = "POLYGON" /\ IsPolygonDepth(normIn.coordinates)) =>
            normOut.coordinates = ClosedPolygon(normIn.coordinates)
    /\ (normIn.type = "MULTIPOLYGON" /\ IsMultiDepth(normIn.coordinates)) =>
            normOut.coordinates = ClosedMulti(normIn.coordinates)

----------------------------------------------------------------------------
(* What the claims say about the zonal query and the point query.          *)

Done(q) == pc[q] = "done"
IsZonal(q) == stage[q] # "" /\ stage[q] # "point"
IsPoint(q) == stage[q] = "point"

WindowedStages == {"read", "window-transform", "rasterize", "compute"}

\* C3: a zonal query that got as far as the windowed computation answers
\* with a {mean, count} result, also when that computation failed.
C3_WindowedFallback ==
    \A q \in Clients :
        (Done(q) /\ stage[q] \in WindowedStages) => result[q].kind = "zonal"

\* The cells the claims call valid, and their arithmetic mean as a float:
\* NaN as soon as one of the values is NaN.
ClaimValid(q) ==
    {rc \in mask[q] : nodata[q] = None \/ PixelAt(tif, rc[1], rc[2]) # nodata[q]}

ArithmeticMean(S) ==
    IF \E rc \in S : PixelAt(tif, rc[1], rc[2]) = NaN THEN NaNFloat
    ELSE Float(SumOver(S, tif), Cardinality(S))

Aggregated(q) == Done(q) /\ stage[q] = "compute" /\ result[q].kind = "zonal"

\* C4: count is the number of covered cells that are not NoData, mean is
\* the arithmetic mean of exactly those cells, and mean is null exactly
\* when count is 0.
C4_Aggregation ==
    \A q \in Clients :
        Aggregated(q) =>
            /\ result[q].count = Cardinality(ClaimValid(q))
            /\ result[q].count > 0 => result[q].mean = ArithmeticMean(ClaimValid(q))
            /\ result[q].count = 0 <=> result[q].mean = Null

\* C5: a result with count 0 carries a note, and the note of a mask that
\* covers nothing differs from the note of a mask whose cells are all NoData.
C5_ZeroResultNote ==
    /\ \A q \in Clients :
        (Done(q) /\ result[q].kind = "zonal" /\ result[q].count = 0) =>
            result[q].note # ""
    /\ \A q1, q2 \in Clients :
        (/\ Aggregated(q1) /\ result[q1].count = 0 /\ mask[q1] = {}
         /\ Aggregated(q2) /\ result[q2].count = 0 /\ mask[q2] # {})
        => result[q1].note # result[q2].note

SpecStages == {"normalize", "validate", "reproject", "window", "rasterize", "compute"}
CodeStages == SpecStages \cup {"bounds-check", "read", "window-transform"}

C7_PointSampler ==
    \A q \in Clients :
        (Done(q) /\ IsPoint(q) /\ geom[q] # NoBox) =>
            LET row == Floor(Top(tif) - geom[q].miny, Res)
                col == Floor(geom[q].minx, Res)
                px == PixelAt(tif, row, col)
            IN  IF row \in 0..(tif.height - 1) /\ col \in 0..(tif.width - 1)
                THEN /\ cells[q] \subseteq {<<row, col>>}
                     /\ result[q].kind = "point" =>
                            /\ cells[q] = {<<row, col>>}
                            /\ result[q].value =
                                IF nodata[q] # None /\ px = nodata[q] THEN Null
                                ELSE IF px = NaN THEN NaNFloat
                                ELSE Float(px, 1)
                ELSE /\ result[q] = PointResult(Null)
                     /\ cells[q] = {}

C7_Witness ==
    \E q \in Clients :
        /\ Done(q) /\ IsPoint(q) /\ cells[q] # {}
        /\ nodata[q] # None /\ result[q] = PointResult(Null)

\* C8: a NaN pixel is left out of count and mean like a NoData pixel; when
\* every covered pixel is NaN the result is {mean: null, count: 0}.
C8_NaNExclusion ==
    \A q \in Clients :
        Aggregated(q) =>
            LET kept == {rc \in ClaimValid(q) : PixelAt(tif, rc[1], rc[2]) # NaN}
            IN  /\ result[q].count = Cardinality(kept)
                /\ kept = {} => result[q].mean = Null
                /\ kept # {} =>
                        result[q].mean = Float(SumOver(kept, tif), Cardinality(kept))

Outside(g, t) ==
    g.maxx < 0 \/ g.minx > Right(t) \/ g.maxy < 0 \/ g.miny > Top(t)

\* The raster cells that share area with the bounds g.
CellsUnder(g, t) ==
    {rc \in (0..(t.height - 1)) \X (0..(t.width - 1)) :
        /\ rc[2] * Res < g.maxx /\ (rc[2] + 1) * Res > g.minx
        /\ Top(t) - (rc[1] + 1) * Res < g.maxy /\ Top(t) - rc[1] * Res > g.miny}

ZeroWithNote(q) ==
    /\ result[q].kind = "zonal" /\ result[q].mean = Null
    /\ result[q].count = 0 /\ result[q].note # ""

\* C9: a zonal query that reads pixels reads a window that lies in the
\* raster, is not empty and covers the part of the bounds inside the raster;
\* an empty clamped window, or a geometry outside the raster, ends the
\* query with {mean: null, count: 0} and a note, and no pixel read.
C9_WindowPlanning ==
    \A q \in Clients :
        IsZonal(q) =>
            /\ (pc[q] = "read" \/ cells[q] # {}) =>
                    /\ 0 <= win[q].col_off /\ 0 <= win[q].row_off
                    /\ win[q].width > 0 /\ win[q].height > 0
                    /\ win[q].col_off + win[q].width <= tif.width
                    /\ win[q].row_off + win[q].height <= tif.height
            /\ pc[q] = "read" => CellsUnder(geom[q], tif) \subseteq WindowCells(win[q])
            /\ cells[q] # {} => cells[q] = WindowCells(win[q])
            /\ (Done(q) /\ stage[q] = "window") =>
                    /\ win[q].width <= 0 \/ win[q].height <= 0
                    /\ ZeroWithNote(q) /\ cells[q] = {}
            /\ (geom[q] # NoBox /\ Outside(geom[q], tif)) =>
                    /\ pc[q] \in {"open", "reproject", "bounds-check", "done"}
                    /\ (Done(q) /\ stage[q] = "bounds-check") =>
                            ZeroWithNote(q) /\ cells[q] = {}

C9_Witness ==
    \E q \in Clients :
        /\ IsZonal(q) /\ pc[q] = "read"
        /\ geom[q].minx < 0 /\ geom[q].maxy > Top(tif)
        /\ win[q].width < tif.width

Handles == 1..Len(opener)

\* C10: every open handle is held by the one running query that opened it,
\* a query that has ended has left none of its handles open, and a query
\* only ever operates on a handle it opened itself, while that handle is
\* open.
C10_ScopedHandle ==
    /\ \A h \in isOpen :
        /\ h \in Handles
        /\ src[opener[h]] = h
        /\ pc[opener[h]] \notin {"idle", "done"}
    /\ \A q \in Clients :
        /\ Done(q) => src[q] = 0 /\ ~(\E h \in isOpen : opener[h] = q)
        /\ \A u \in uses[q] : u[1] \in Handles /\ opener[u[1]] = q /\ u[2]
    /\ \A q1, q2 \in Clients :
        (q1 # q2 /\ src[q1] # 0) => src[q1] # src[q2]

C10_Witness ==
    \E q1, q2 \in Clients :
        /\ q1 # q2
        /\ Done(q1) /\ result[q1].kind = "error" /\ uses[q1] # {}
        /\ src[q2] \in isOpen /\ uses[q2] # {}

====
